---- MODULE Spec2Model ----
(***************************************************************************)
(* A model of pybloom (src/pybloom/pybloom.py): the fixed-capacity         *)
(* BloomFilter and the ScalableBloomFilter built on it.                    *)
(*                                                                         *)
(* Representation choices:                                                 *)
(*  - a float is an exact rational [n, d] in lowest terms; float rounding  *)
(*    is not modelled (the sampled rates stay away from the boundaries of  *)
(*    ceil and of the comparisons);                                        *)
(*  - a bitarray is a sequence of 0/1, index 0 of the code at position 1;  *)
(*  - the message digests of make_hashfuncs are an unknown but fixed       *)
(*    table `digest', chosen once in the initial state;                    *)
(*  - a file is its five header fields and its payload bytes (0..255).     *)
(***************************************************************************)
EXTENDS Integers, Sequences, FiniteSets, TLC

VARIABLES
    digest,   \* digest[h][s][key]: the chunks of hash h, salt s, over key
    A,        \* a BloomFilter object (None before it is constructed)
    B,        \* a second BloomFilter object
    R,        \* the object returned by the last copy/union/intersection/fromfile
    file,     \* the stream written by the last tofile (or handed to fromfile)
    sbf,      \* a ScalableBloomFilter object
    ghost,    \* history: which keys went through which add calls
    last      \* the last call: operation, arguments, result, state before

vars == <<digest, A, B, R, file, sbf, ghost, last>>

(***************************************************************************)
(* Bounds of the model.                                                    *)
(***************************************************************************)
NumKeys == 2
MaxUint == 1
MaxCapacity == 2

Keys == 1..NumKeys
Uints == 0..MaxUint

None == [none |-> TRUE]

\* F(x) with x computed once (TLC re-evaluates an argument at every use)
Let(x, F(_)) == CHOOSE r \in {F(v) : v \in {x}} : TRUE

(***************************************************************************)
(* Rationals standing for floats.                                          *)
(***************************************************************************)
RECURSIVE Gcd(_, _)
Gcd(a, b) == IF b = 0 THEN a ELSE Gcd(b, a % b)

Rat(n, d) == LET g == Gcd(n, d) IN [n |-> n \div g, d |-> d \div g]

RatMul(p, q) == Rat(p.n * q.n, p.d * q.d)

RatLess(p, q) == p.n * q.d < q.n * p.d

Zero == Rat(0, 1)
One == Rat(1, 1)

RECURSIVE Pow2(_)
Pow2(k) == IF k = 0 THEN 1 ELSE 2 * Pow2(k - 1)

(***************************************************************************)
(* math.log in fixed point: Log2Fx(p) is log2(1 / p) in units of 1 / FX    *)
(* for 0 < p <= 1, by the shift-and-square method.                         *)
(***************************************************************************)
FX == 16384
FracBits == 14
LN2FX == 11356

\* int(math.ceil(math.log(1.0 / error_rate, 2)))
CeilLog2Inv(p) ==
    CHOOSE k \in 0..30 :
        /\ p.n * Pow2(k) >= p.d
        /\ \A j \in 0..(k - 1) : p.n * Pow2(j) < p.d

FloorLog2Inv(p) ==
    CHOOSE e \in 0..30 :
        /\ p.n * Pow2(e) <= p.d
        /\ p.n * Pow2(e + 1) > p.d

RECURSIVE FracLoop(_, _, _)
FracLoop(x, frac, i) ==
    IF i = 0 THEN frac
    ELSE LET y == (x * x) \div FX
         IN IF y >= 2 * FX
            THEN FracLoop(y \div 2, 2 * frac + 1, i - 1)
            ELSE FracLoop(y, 2 * frac, i - 1)

Log2Fx(p) ==
    LET e == FloorLog2Inv(p)
        x == (p.d * FX) \div (p.n * Pow2(e))
    IN e * FX + FracLoop(x, 0, FracBits)

CeilDiv(a, b) == (a + b - 1) \div b

(***************************************************************************)
(* make_hashfuncs(num_slices, num_bits).  TLC's integers end at 2^31 - 1,  *)
(* so the first test (num_bits >= 1 << 31) is written with that number.    *)
(***************************************************************************)
ChunkSize(num_bits) ==
    IF num_bits > 2147483647 THEN 8
    ELSE IF num_bits >= 32768 THEN 4
    ELSE 2

HashFn(num_slices, num_bits) ==
    LET total_hash_bits == 8 * num_slices * ChunkSize(num_bits)
    IN IF total_hash_bits > 384 THEN "sha512"
       ELSE IF total_hash_bits > 256 THEN "sha384"
       ELSE IF total_hash_bits > 160 THEN "sha256"
       ELSE IF total_hash_bits > 128 THEN "sha1"
       ELSE "md5"

DigestSize(h) ==
    CASE h = "md5" -> 16
      [] h = "sha1" -> 20
      [] h = "sha256" -> 32
      [] h = "sha384" -> 48
      [] h = "sha512" -> 64

\* len(fmt): the number of chunks one digest is unpacked into
FmtLen(num_slices, num_bits) ==
    DigestSize(HashFn(num_slices, num_bits)) \div ChunkSize(num_bits)

\* _make_hashfuncs(key): the i-th index yielded (i from 0), the chunk
\* i % len(fmt) of the digest under salt i // len(fmt), modulo num_bits
HashIndex(num_slices, num_bits, key, i) ==
    LET len == FmtLen(num_slices, num_bits)
        h == HashFn(num_slices, num_bits)
    IN digest[h][i \div len][key][(i % len) + 1] % num_bits

(***************************************************************************)
(* BloomFilter                                                             *)
(***************************************************************************)
\* bitarray(n) after setall(False)
RECURSIVE Zeros(_)
Zeros(n) == IF n = 0 THEN <<>> ELSE Append(Zeros(n - 1), 0)

\* BloomFilter._setup
Setup(error_rate, num_slices, bits_per_slice, capacity, count) ==
    [error_rate |-> error_rate,
     num_slices |-> num_slices,
     bits_per_slice |-> bits_per_slice,
     capacity |-> capacity,
     num_bits |-> num_slices * bits_per_slice,
     count |-> count]

\* the object: the fields _setup assigns and self.bitarray
WithBits(f, bits) ==
    [error_rate |-> f.error_rate,
     num_slices |-> f.num_slices,
     bits_per_slice |-> f.bits_per_slice,
     capacity |-> f.capacity,
     num_bits |-> f.num_bits,
     count |-> f.count,
     bitarray |-> bits]

\* the ValueError tests of BloomFilter.__init__
InitRaises(capacity, error_rate) ==
    \/ ~(RatLess(Zero, error_rate) /\ RatLess(error_rate, One))
    \/ ~(capacity > 0)

NumSlicesOf(error_rate) == CeilLog2Inv(error_rate)

BitsPerSliceOf(capacity, error_rate) ==
    CeilDiv(capacity * Log2Fx(error_rate), NumSlicesOf(error_rate) * LN2FX)

\* BloomFilter.__init__ past its two tests
BloomFilter(capacity, error_rate) ==
    LET f == Setup(error_rate, NumSlicesOf(error_rate),
                   BitsPerSliceOf(capacity, error_rate), capacity, 0)
    IN WithBits(f, Zeros(f.num_bits))

\* bitarray[i] of the code
Bit(bits, i) == bits[i + 1]

\* BloomFilter.__contains__: the first slice whose bit is unset decides
Contains(f, key) ==
    \A s \in 0..(f.num_slices - 1) :
        Bit(f.bitarray,
            s * f.bits_per_slice
              + HashIndex(f.num_slices, f.bits_per_slice, key, s)) = 1

\* a loop that forgets offset += bits_per_slice
RECURSIVE AddLoopNoOffset(_, _, _, _, _, _)
AddLoopNoOffset(f, key, skip_check, s, bits, found_all_bits) ==
    IF s >= f.num_slices THEN [bits |-> bits, found_all_bits |-> found_all_bits]
    ELSE LET at == HashIndex(f.num_slices, f.bits_per_slice, key, s)
             found == IF ~skip_check /\ found_all_bits /\ Bit(bits, at) = 0
                      THEN FALSE ELSE found_all_bits
         IN AddLoopNoOffset(f, key, skip_check, s + 1,
                            [bits EXCEPT ![at + 1] = 1], found)

\* a loop that sets the bit before it tests it
RECURSIVE AddLoopSetFirst(_, _, _, _, _, _)
AddLoopSetFirst(f, key, skip_check, s, bits, found_all_bits) ==
    IF s >= f.num_slices THEN [bits |-> bits, found_all_bits |-> found_all_bits]
    ELSE LET at == s * f.bits_per_slice
                     + HashIndex(f.num_slices, f.bits_per_slice, key, s)
             set == [bits EXCEPT ![at + 1] = 1]
             found == IF ~skip_check /\ found_all_bits /\ Bit(set, at) = 0
                      THEN FALSE ELSE found_all_bits
         IN AddLoopSetFirst(f, key, skip_check, s + 1, set, found)

\* a loop that tests the bits and sets none
RECURSIVE AddLoopNoSet(_, _, _, _, _, _)
AddLoopNoSet(f, key, skip_check, s, bits, found_all_bits) ==
    IF s >= f.num_slices THEN [bits |-> bits, found_all_bits |-> found_all_bits]
    ELSE LET at == s * f.bits_per_slice
                     + HashIndex(f.num_slices, f.bits_per_slice, key, s)
             found == IF ~skip_check /\ found_all_bits /\ Bit(bits, at) = 0
                      THEN FALSE ELSE found_all_bits
         IN AddLoopNoSet(f, key, skip_check, s + 1, bits, found)

\* a loop that flips the bit it should set
RECURSIVE AddLoopFlip(_, _, _, _, _, _)
AddLoopFlip(f, key, skip_check, s, bits, found_all_bits) ==
    IF s >= f.num_slices THEN [bits |-> bits, found_all_bits |-> found_all_bits]
    ELSE LET at == s * f.bits_per_slice
                     + HashIndex(f.num_slices, f.bits_per_slice, key, s)
             found == IF ~skip_check /\ found_all_bits /\ Bit(bits, at) = 0
                      THEN FALSE ELSE found_all_bits
         IN AddLoopFlip(f, key, skip_check, s + 1,
                        [bits EXCEPT ![at + 1] = 1 - @], found)

\* the loop of BloomFilter.add from slice s on: the bits and found_all_bits
RECURSIVE AddLoop(_, _, _, _, _, _)
AddLoop(f, key, skip_check, s, bits, found_all_bits) ==
    IF s >= f.num_slices THEN [bits |-> bits, found_all_bits |-> found_all_bits]
    ELSE LET at == s * f.bits_per_slice
                     + HashIndex(f.num_slices, f.bits_per_slice, key, s)
             found == IF ~skip_check /\ found_all_bits /\ Bit(bits, at) = 0
                      THEN FALSE ELSE found_all_bits
         IN AddLoop(f, key, skip_check, s + 1,
                    [bits EXCEPT ![at + 1] = 1], found)

\* the test written with >=
AddRaisesAtCapacity(f) == f.count >= f.capacity

\* if self.count > self.capacity: raise IndexError
AddRaises(f) == f.count > f.capacity

\* BloomFilter.add: [err, ret, self]
Add(f, key, skip_check) ==
    IF AddRaises(f)
    THEN [err |-> "IndexError", ret |-> FALSE, self |-> f]
    ELSE LET r == AddLoop(f, key, skip_check, 0, f.bitarray, TRUE)
             g == [f EXCEPT !.bitarray = r.bits]
         IN IF skip_check
            THEN [err |-> "", ret |-> FALSE,
                  self |-> [g EXCEPT !.count = f.count + 1]]
            ELSE IF ~r.found_all_bits
            THEN [err |-> "", ret |-> FALSE,
                  self |-> [g EXCEPT !.count = f.count + 1]]
            ELSE [err |-> "", ret |-> TRUE, self |-> g]

(***************************************************************************)
(* copy, union, intersection.  bitarray's | and & demand operands of equal *)
(* length and raise ValueError otherwise.                                  *)
(***************************************************************************)
\* an AND where the OR belongs
BitOrAsAnd(x, y) == [i \in 1..Len(x) |-> IF x[i] = 1 /\ y[i] = 1 THEN 1 ELSE 0]

\* bitarray.__or__ on operands of equal length
BitOr(x, y) == [i \in 1..Len(x) |-> IF x[i] = 1 \/ y[i] = 1 THEN 1 ELSE 0]

\* bitarray.__and__ on operands of equal length
BitAnd(x, y) == [i \in 1..Len(x) |-> IF x[i] = 1 /\ y[i] = 1 THEN 1 ELSE 0]

\* BloomFilter.copy: a new BloomFilter(capacity, error_rate), which may
\* raise, given a copy of the bits; count is the new filter's
Copy(f) ==
    IF InitRaises(f.capacity, f.error_rate)
    THEN [err |-> "ValueError", why |-> "init", ret |-> None]
    ELSE [err |-> "", why |-> "",
          ret |-> [BloomFilter(f.capacity, f.error_rate)
                     EXCEPT !.bitarray = f.bitarray]]

\* the test that opens union and intersection
Incompatible(f, other) ==
    f.capacity # other.capacity \/ f.error_rate # other.error_rate

\* BloomFilter.union
Union(f, other) ==
    IF Incompatible(f, other)
    THEN [err |-> "ValueError", why |-> "incompatible", ret |-> None]
    ELSE LET c == Copy(f)
         IN IF c.err # "" THEN c
            ELSE IF Len(c.ret.bitarray) # Len(other.bitarray)
            THEN [err |-> "ValueError", why |-> "length", ret |-> None]
            ELSE [err |-> "", why |-> "",
                  ret |-> [c.ret EXCEPT
                             !.bitarray = BitOr(c.ret.bitarray, other.bitarray)]]

\* BloomFilter.intersection
Intersection(f, other) ==
    IF Incompatible(f, other)
    THEN [err |-> "ValueError", why |-> "incompatible", ret |-> None]
    ELSE LET c == Copy(f)
         IN IF c.err # "" THEN c
            ELSE IF Len(c.ret.bitarray) # Len(other.bitarray)
            THEN [err |-> "ValueError", why |-> "length", ret |-> None]
            ELSE [err |-> "", why |-> "",
                  ret |-> [c.ret EXCEPT
                             !.bitarray = BitAnd(c.ret.bitarray, other.bitarray)]]

(***************************************************************************)
(* tofile, fromfile.  bitarray.tobytes pads the last byte with zero bits;  *)
(* frombytes appends eight bits for every byte; bit 0 is the least         *)
(* significant bit of byte 0 (endian = 'little').  The header fields are   *)
(* kept as values: struct packs a float and an unsigned 64-bit integer     *)
(* without loss.                                                           *)
(***************************************************************************)
HeaderLen == 40

\* bitarray.tobytes
ToBytes(bits) ==
    [j \in 1..CeilDiv(Len(bits), 8) |->
        LET b(i) == IF 8 * (j - 1) + i + 1 <= Len(bits)
                    THEN bits[8 * (j - 1) + i + 1] * Pow2(i) ELSE 0
        IN b(0) + b(1) + b(2) + b(3) + b(4) + b(5) + b(6) + b(7)]

\* bitarray.frombytes on an empty bitarray
FromBytes(bytes) ==
    [i \in 1..(8 * Len(bytes)) |->
        (bytes[((i - 1) \div 8) + 1] \div Pow2((i - 1) % 8)) % 2]

\* BloomFilter.tofile
ToFile(f) ==
    [hdr |-> <<f.error_rate, f.num_slices, f.bits_per_slice, f.capacity, f.count>>,
     data |-> ToBytes(f.bitarray)]

\* f.read(k) on the payload: at most k bytes
Read(data, k) == SubSeq(data, 1, IF k < Len(data) THEN k ELSE Len(data))

\* the length test that ends BloomFilter.fromfile
LengthMismatch(num_bits, length) ==
    /\ num_bits # length
    /\ num_bits + (8 - (num_bits % 8)) # length

\* BloomFilter.fromfile(f, n)
FromFile(f, n) ==
    IF 0 < n /\ n < HeaderLen
    THEN [err |-> "ValueError", why |-> "n too small", ret |-> None]
    ELSE LET payload == IF n > 0 THEN Read(f.data, n - HeaderLen) ELSE f.data
             g == WithBits(Setup(f.hdr[1], f.hdr[2], f.hdr[3], f.hdr[4], f.hdr[5]),
                           FromBytes(payload))
         IN IF LengthMismatch(g.num_bits, Len(g.bitarray))
            THEN [err |-> "ValueError", why |-> "length", ret |-> None]
            ELSE [err |-> "", why |-> "", ret |-> g]

(***************************************************************************)
(* The single-filter specification: A is constructed, then added to.       *)
(***************************************************************************)
ErrorRates == {Rat(1, 2), Rat(1, 4)}
Capacities == 1..MaxCapacity

\* the positions of a digest the filters of these specifications read
BFSlices == NumSlicesOf(Rat(1, 4))

\* key names are arbitrary: they are given in the order of their digests
RECURSIVE SeqLeq(_, _, _)
SeqLeq(x, y, i) ==
    IF i > Len(x) THEN TRUE
    ELSE IF x[i] # y[i] THEN x[i] < y[i]
    ELSE SeqLeq(x, y, i + 1)

Digests(nslices) ==
    LET chunks == {d \in [1..8 -> Uints] : \A i \in 1..8 : i > nslices => d[i] = 0}
        tables == {t \in [Keys -> chunks] :
                      \A k \in Keys : k + 1 \in Keys => SeqLeq(t[k], t[k + 1], 1)}
    IN {[h \in {"md5"} |-> [salt \in {0} |-> t]] : t \in tables}

NoGhost ==
    [added |-> [o \in {"A", "B"} |-> {}],
     counted |-> [o \in {"A", "B"} |-> {}],
     skipped |-> [o \in {"A", "B"} |-> FALSE],
     sbfPassed |-> {},
     sbfAdded |-> {},
     sbfFalse |-> 0]

Init ==
    /\ digest \in Digests(BFSlices)
    /\ \E capacity \in Capacities, error_rate \in ErrorRates :
          A = BloomFilter(capacity, error_rate)
    /\ B = None
    /\ R = None
    /\ file = None
    /\ sbf = None
    /\ ghost = NoGhost
    /\ last = [op |-> "new"]

GhostAdd(g, o, key, skip_check, r) ==
    IF r.err # "" THEN g
    ELSE [g EXCEPT
            !.added[o] = @ \cup {key},
            !.counted[o] = IF r.ret THEN @ ELSE @ \cup {key},
            !.skipped[o] = @ \/ skip_check]

\* A.add(key, skip_check)
AddA ==
    /\ \E key \in Keys, skip_check \in BOOLEAN :
          LET r == Add(A, key, skip_check)
          IN /\ A' = r.self
             /\ ghost' = GhostAdd(ghost, "A", key, skip_check, r)
             /\ last' = [op |-> "add", key |-> key,
                         skip_check |-> skip_check, err |-> r.err,
                         ret |-> r.ret, pre |-> A]
    /\ UNCHANGED <<digest, B, R, file, sbf>>

Next == AddA

Spec == Init /\ [][Next]_vars

(***************************************************************************)
(* Two filters and the set operations on them.  A and B are constructed    *)
(* and filled by add (skip_check = False) with the keys of two sets, in    *)
(* the order of the keys; the calls are copy, union and intersection.      *)
(***************************************************************************)
\* f after f.add(key) for the keys of S from key k on; g is the history
RECURSIVE AddAll(_, _, _, _, _)
AddAll(f, g, o, S, k) ==
    IF k > NumKeys THEN [self |-> f, ghost |-> g]
    ELSE IF k \notin S THEN AddAll(f, g, o, S, k + 1)
    ELSE Let(Add(f, k, FALSE),
             LAMBDA r : Let(GhostAdd(g, o, k, FALSE, r),
                            LAMBDA h : AddAll(r.self, h, o, S, k + 1)))

InitSet ==
    /\ digest \in Digests(BFSlices)
    /\ \E ca \in {MaxCapacity}, ea \in ErrorRates, cb \in Capacities, eb \in ErrorRates,
          SA \in SUBSET Keys, SB \in SUBSET Keys :
          \E a \in {AddAll(BloomFilter(ca, ea), NoGhost, "A", SA, 1)} :
          \E b \in {AddAll(BloomFilter(cb, eb), a.ghost, "B", SB, 1)} :
             /\ A = a.self
             /\ B = b.self
             /\ ghost = b.ghost
    /\ R = None
    /\ file = None
    /\ sbf = None
    /\ last = [op |-> "new"]

\* R = A.copy()
CopyA ==
    /\ LET r == Copy(A)
       IN /\ R' = r.ret
          /\ last' = [op |-> "copy", err |-> r.err, why |-> r.why]
    /\ UNCHANGED <<digest, A, B, file, sbf, ghost>>

\* R = A.union(B)
UnionAB ==
    /\ A # None /\ B # None
    /\ LET r == Union(A, B)
       IN /\ R' = r.ret
          /\ last' = [op |-> "union", err |-> r.err, why |-> r.why,
                      self |-> A, other |-> B]
    /\ UNCHANGED <<digest, A, B, file, sbf, ghost>>

\* R = A.intersection(B)
IntersectionAB ==
    /\ A # None /\ B # None
    /\ LET r == Intersection(A, B)
       IN /\ R' = r.ret
          /\ last' = [op |-> "intersection", err |-> r.err, why |-> r.why,
                      self |-> A, other |-> B]
    /\ UNCHANGED <<digest, A, B, file, sbf, ghost>>

NextSet == CopyA \/ UnionAB \/ IntersectionAB

SpecSet == InitSet /\ [][NextSet]_vars

(***************************************************************************)
(* Serialization of a filled filter: A is written with tofile, the stream  *)
(* is read back into B with fromfile, and B is used beside A.  A stream is *)
(* read once: fromfile leaves no stream behind.                            *)
(***************************************************************************)
\* the n of fromfile(f, n), for a stream of len payload bytes
ReadLengths(len) ==
    {-1, 0, HeaderLen - 1, HeaderLen, HeaderLen + len, HeaderLen + len + 1}

InitFile ==
    /\ digest \in Digests(BFSlices)
    /\ \E ca \in Capacities, ea \in ErrorRates, SA \in SUBSET Keys :
          \E a \in {AddAll(BloomFilter(ca, ea), NoGhost, "A", SA, 1)} :
             /\ A = a.self
             /\ ghost = a.ghost
    /\ B = None
    /\ R = None
    /\ file = None
    /\ sbf = None
    /\ last = [op |-> "new"]

\* A.tofile(f)
ToFileA ==
    /\ A # None /\ file = None /\ B = None
    /\ file' = ToFile(A)
    /\ last' = [op |-> "tofile"]
    /\ UNCHANGED <<digest, A, B, R, sbf, ghost>>

\* B = BloomFilter.fromfile(f, n)
FromFileB ==
    /\ file # None /\ B = None
    /\ \E n \in ReadLengths(Len(file.data)) :
          LET r == FromFile(file, n)
          IN /\ B' = r.ret
             /\ last' = [op |-> "fromfile", obj |-> "B", n |-> n,
                         err |-> r.err, why |-> r.why, stream |-> file]
    /\ file' = None
    /\ R' = None
    /\ UNCHANGED <<digest, A, sbf, ghost>>

\* B.add(key, skip_check)
AddB ==
    /\ B # None
    /\ \E key \in Keys, skip_check \in BOOLEAN :
          LET r == Add(B, key, skip_check)
          IN /\ B' = r.self
             /\ ghost' = GhostAdd(ghost, "B", key, skip_check, r)
             /\ last' = [op |-> "add", key |-> key,
                         skip_check |-> skip_check, err |-> r.err,
                         ret |-> r.ret, pre |-> B]
    /\ R' = None
    /\ UNCHANGED <<digest, A, file, sbf>>

NextFile == ToFileA \/ FromFileB \/ AddB \/ UnionAB \/ IntersectionAB

SpecFile == InitFile /\ [][NextFile]_vars

(***************************************************************************)
(* Filters read from streams that any writer may have produced: a header   *)
(* of five fields and a payload.  No key is hashed in this specification,  *)
(* so one digest table stands for all.                                     *)
(***************************************************************************)
MaxPayload == 1

PayloadBytes == {0, 255}

RECURSIVE SeqsUpTo(_, _)
SeqsUpTo(S, n) ==
    IF n = 0 THEN {<<>>}
    ELSE LET shorter == SeqsUpTo(S, n - 1)
         IN shorter \cup {Append(q, x) : q \in {r \in shorter : Len(r) = n - 1}, x \in S}

Streams ==
    [hdr : ErrorRates \X (1..2) \X {3, 4, 6} \X Capacities \X {0},
     data : SeqsUpTo(PayloadBytes, MaxPayload)]

InitLoad ==
    /\ digest = CHOOSE t \in Digests(0) : TRUE
    /\ A = None
    /\ B = None
    /\ R = None
    /\ file = None
    /\ sbf = None
    /\ ghost = NoGhost
    /\ last = [op |-> "new"]

\* a stream is opened
Open ==
    /\ file = None /\ B = None
    /\ file' \in Streams
    /\ last' = [op |-> "open"]
    /\ UNCHANGED <<digest, A, B, R, sbf, ghost>>

\* A = BloomFilter.fromfile(f, n)
FromFileA ==
    /\ file # None /\ A = None
    /\ \E n \in ReadLengths(Len(file.data)) :
          LET r == FromFile(file, n)
          IN /\ A' = r.ret
             /\ last' = [op |-> "fromfile", obj |-> "A", n |-> n,
                         err |-> r.err, why |-> r.why, stream |-> file]
    /\ file' = None
    /\ R' = None
    /\ UNCHANGED <<digest, B, sbf, ghost>>

\* the second stream is read once A is there
FromFileB2 ==
    /\ A # None
    /\ FromFileB

NextLoad == Open \/ FromFileA \/ FromFileB2 \/ UnionAB \/ IntersectionAB

SpecLoad == InitLoad /\ [][NextLoad]_vars

(***************************************************************************)
(* Every operation on one filter: A is added to, with B, a filter of the   *)
(* same capacity and error rate holding one key, as the other operand;     *)
(* then A is copied, merged with B or written to a file.                   *)
(***************************************************************************)
InitOps ==
    /\ digest \in Digests(BFSlices)
    /\ \E error_rate \in ErrorRates :
          /\ A = BloomFilter(MaxCapacity, error_rate)
          /\ B = Add(BloomFilter(MaxCapacity, error_rate), 1, FALSE).self
    /\ R = None
    /\ file = None
    /\ sbf = None
    /\ ghost = NoGhost
    /\ last = [op |-> "new"]

\* A.add(key, skip_check) before anything is made of A
AddFirst ==
    /\ R = None /\ file = None
    /\ AddA

\* R = A.copy()
CopyOp ==
    /\ file = None
    /\ CopyA

\* R = A.union(B)
UnionOp ==
    /\ file = None
    /\ UnionAB

\* R = A.intersection(B)
IntersectionOp ==
    /\ file = None
    /\ IntersectionAB

\* A.tofile(f)
ToFileOp ==
    /\ R = None /\ file = None
    /\ file' = ToFile(A)
    /\ last' = [op |-> "tofile"]
    /\ UNCHANGED <<digest, A, B, R, sbf, ghost>>

NextOps == AddFirst \/ CopyOp \/ UnionOp \/ IntersectionOp \/ ToFileOp

SpecOps == InitOps /\ [][NextOps]_vars

(***************************************************************************)
(* BloomFilter.fromfile as a function of the header and of the length of   *)
(* the payload: the stream is drawn, then read.                            *)
(***************************************************************************)
MaxSliceBits == 8
MaxBytes == 3

PayloadStreams ==
    [hdr : {Rat(1, 2)} \X (1..2) \X (1..MaxSliceBits) \X {1} \X {0},
     data : {[i \in 1..len |-> 0] : len \in 0..MaxBytes}]

InitPayload ==
    /\ digest = CHOOSE t \in Digests(0) : TRUE
    /\ file \in PayloadStreams
    /\ A = None
    /\ B = None
    /\ R = None
    /\ sbf = None
    /\ ghost = NoGhost
    /\ last = [op |-> "open"]

NextPayload == FromFileA

SpecPayload == InitPayload /\ [][NextPayload]_vars

(***************************************************************************)
(* ScalableBloomFilter                                                     *)
(***************************************************************************)
SMALL_SET_GROWTH == 2
LARGE_SET_GROWTH == 4

\* the ratio ScalableBloomFilter.__init__ hands to _setup: 0.9
Ratio == Rat(9, 10)

\* 1.0 - self.ratio
OneMinus(p) == Rat(p.d - p.n, p.d)

\* if not error_rate or error_rate < 0: raise ValueError
SBFInitRaises(error_rate) == error_rate = Zero \/ RatLess(error_rate, Zero)

\* ScalableBloomFilter.__init__ past its test, with _setup
ScalableBloomFilter(initial_capacity, error_rate, mode) ==
    [scale |-> mode,
     ratio |-> Ratio,
     initial_capacity |-> initial_capacity,
     error_rate |-> error_rate,
     filters |-> <<>>]

\* ScalableBloomFilter.__contains__
SBFContains(s, key) ==
    \E i \in 1..Len(s.filters) : Contains(s.filters[i], key)

\* successors that take the error rate of the SBF, not of the last filter
NewFilterArgsFromBase(s) ==
    IF s.filters = <<>>
    THEN [capacity |-> s.initial_capacity,
          error_rate |-> RatMul(s.error_rate, OneMinus(s.ratio))]
    ELSE LET filter == s.filters[Len(s.filters)]
         IN [capacity |-> filter.capacity * s.scale,
             error_rate |-> RatMul(s.error_rate, s.ratio)]

\* the capacity and error rate of the filter that add writes to when it
\* has to make one: the first filter, or the successor of a full last one
NewFilterArgs(s) ==
    IF s.filters = <<>>
    THEN [capacity |-> s.initial_capacity,
          error_rate |-> RatMul(s.error_rate, OneMinus(s.ratio))]
    ELSE LET filter == s.filters[Len(s.filters)]
         IN [capacity |-> filter.capacity * s.scale,
             error_rate |-> RatMul(filter.error_rate, s.ratio)]

\* growth only once the last filter is over capacity
GrowsLate(s) ==
    \/ s.filters = <<>>
    \/ LET filter == s.filters[Len(s.filters)]
       IN filter.count > filter.capacity

\* whether add has to make a filter
Grows(s) ==
    \/ s.filters = <<>>
    \/ LET filter == s.filters[Len(s.filters)]
       IN filter.count >= filter.capacity

\* an add that writes to the oldest filter
SBFAddToFirst(s, key) ==
    IF SBFContains(s, key)
    THEN [err |-> "", ret |-> TRUE, self |-> s]
    ELSE IF Grows(s) /\ InitRaises(NewFilterArgs(s).capacity, NewFilterArgs(s).error_rate)
    THEN [err |-> "ValueError", ret |-> FALSE, self |-> s]
    ELSE Let(IF Grows(s)
             THEN Append(s.filters, BloomFilter(NewFilterArgs(s).capacity,
                                                NewFilterArgs(s).error_rate))
             ELSE s.filters,
             LAMBDA filters :
                Let(Add(filters[1], key, TRUE),
                    LAMBDA r :
                       [err |-> r.err, ret |-> FALSE,
                        self |-> [s EXCEPT !.filters =
                                    [filters EXCEPT ![1] = r.self]]]))

\* ScalableBloomFilter.__len__
RECURSIVE SBFLen(_)
SBFLen(s) ==
    IF s.filters = <<>> THEN 0
    ELSE s.filters[Len(s.filters)].count
         + SBFLen([s EXCEPT !.filters = SubSeq(s.filters, 1, Len(s.filters) - 1)])

\* ScalableBloomFilter.add: [err, ret, self]
SBFAdd(s, key) ==
    IF SBFContains(s, key)
    THEN [err |-> "", ret |-> TRUE, self |-> s]
    ELSE IF Grows(s) /\ InitRaises(NewFilterArgs(s).capacity, NewFilterArgs(s).error_rate)
    THEN [err |-> "ValueError", ret |-> FALSE, self |-> s]
    ELSE Let(IF Grows(s)
             THEN Append(s.filters, BloomFilter(NewFilterArgs(s).capacity,
                                                NewFilterArgs(s).error_rate))
             ELSE s.filters,
             LAMBDA filters :
                Let(Add(filters[Len(filters)], key, TRUE),
                    LAMBDA r :
                       [err |-> r.err, ret |-> FALSE,
                        self |-> [s EXCEPT !.filters =
                                    [filters EXCEPT ![Len(filters)] = r.self]]]))

(***************************************************************************)
(* The ScalableBloomFilter specification: sbf is constructed, then added   *)
(* to.  The constructor is given valid and invalid parameters alike.       *)
(* The filters of an error_rate below 1 have four slices and more; of the  *)
(* chunks of a digest the first BFSlices vary and the others are 0.        *)
(***************************************************************************)
SBFErrorRates == {Zero, Rat(9, 10), Rat(3, 1)}
SBFCapacities == 0..MaxCapacity
SBFModes == {SMALL_SET_GROWTH, 3, LARGE_SET_GROWTH}

InitSBF ==
    /\ digest \in Digests(BFSlices)
    /\ \E initial_capacity \in SBFCapacities, error_rate \in SBFErrorRates,
          mode \in SBFModes :
          /\ sbf = IF SBFInitRaises(error_rate) THEN None
                   ELSE ScalableBloomFilter(initial_capacity, error_rate, mode)
          /\ last = [op |-> "sbf.new",
                      err |-> IF SBFInitRaises(error_rate) THEN "ValueError" ELSE "",
                      initial_capacity |-> initial_capacity,
                      error_rate |-> error_rate,
                      mode |-> mode]
    /\ A = None
    /\ B = None
    /\ R = None
    /\ file = None
    /\ ghost = NoGhost

\* sbf.add(key)
SBFAddCall ==
    /\ sbf # None
    /\ \E key \in Keys :
          LET r == SBFAdd(sbf, key)
          IN /\ sbf' = r.self
             /\ ghost' = [ghost EXCEPT
                            !.sbfPassed = @ \cup {key},
                            !.sbfAdded = IF r.err = "" THEN @ \cup {key} ELSE @,
                            !.sbfFalse = IF r.err = "" /\ ~r.ret THEN @ + 1 ELSE @]
             /\ last' = [op |-> "sbf.add", key |-> key, err |-> r.err,
                         ret |-> r.ret, pre |-> sbf]
    /\ UNCHANGED <<digest, A, B, R, file>>

NextSBF == SBFAddCall

SpecSBF == InitSBF /\ [][NextSBF]_vars

(***************************************************************************)
(* ScalableBloomFilter.tofile and fromfile.  The filters of an SBF follow  *)
(* one another in the file, so the file is kept byte by byte: a filter's   *)
(* header is HeaderLen bytes, the first of which carries its five fields,  *)
(* and each payload byte is one byte.  A read that does not start on a     *)
(* header, or that takes payload bytes from a header, unpacks bytes of     *)
(* other fields; the model reports it as "misread".                        *)
(***************************************************************************)
\* the bytes BloomFilter.tofile writes
Units(st) ==
    <<[kind |-> "hdr", v |-> st.hdr]>>
    \o [i \in 1..(HeaderLen - 1) |-> [kind |-> "pad", v |-> 0]]
    \o [i \in 1..Len(st.data) |-> [kind |-> "byte", v |-> st.data[i]]]

\* a size taken from after the filter's header
FilterSizePayload(filter) == Len(ToFile(filter).data)

\* filter_sizes.append(f.tell() - begin) around filter.tofile(f)
FilterSize(filter) == Len(Units(ToFile(filter)))

\* the bytes the loop over self.filters writes, from filter i on
RECURSIVE Body(_, _)
Body(filters, i) ==
    IF i > Len(filters) THEN <<>>
    ELSE Units(ToFile(filters[i])) \o Body(filters, i + 1)

\* ScalableBloomFilter.tofile
SBFToFile(s) ==
    [hdr |-> <<s.scale, s.ratio, s.initial_capacity, s.error_rate>>,
     nfilters |-> Len(s.filters),
     sizes |-> [i \in 1..Len(s.filters) |-> FilterSize(s.filters[i])],
     body |-> Body(s.filters, 1)]

\* BloomFilter.fromfile(f, n) with f at byte pos of body: [err, why, ret, pos]
FromFileAt(body, pos, n) ==
    IF 0 < n /\ n < HeaderLen
    THEN [err |-> "ValueError", why |-> "n too small", ret |-> None, pos |-> pos]
    ELSE IF pos + HeaderLen - 1 > Len(body)
    THEN [err |-> "struct.error", why |-> "short header", ret |-> None,
          pos |-> Len(body) + 1]
    ELSE IF body[pos].kind # "hdr"
    THEN [err |-> "misread", why |-> "header", ret |-> None, pos |-> pos + HeaderLen]
    ELSE LET rest == SubSeq(body, pos + HeaderLen, Len(body))
             taken == IF n > 0 THEN Read(rest, n - HeaderLen) ELSE rest
             end == pos + HeaderLen + Len(taken)
         IN IF \E i \in 1..Len(taken) : taken[i].kind # "byte"
            THEN [err |-> "misread", why |-> "payload", ret |-> None, pos |-> end]
            ELSE Let(FromFile([hdr |-> body[pos].v,
                               data |-> [i \in 1..Len(taken) |-> taken[i].v]], n),
                     LAMBDA r :
                        [err |-> r.err, why |-> r.why, ret |-> r.ret, pos |-> end])

\* the loop over filter_lengths of ScalableBloomFilter.fromfile
RECURSIVE ReadFilters(_, _, _, _, _)
ReadFilters(body, pos, sizes, i, filters) ==
    IF i > Len(sizes)
    THEN [err |-> "", why |-> "", filters |-> filters, pos |-> pos]
    ELSE Let(FromFileAt(body, pos, sizes[i]),
             LAMBDA r :
                IF r.err # ""
                THEN [err |-> r.err, why |-> r.why, filters |-> filters, pos |-> r.pos]
                ELSE ReadFilters(body, r.pos, sizes, i + 1, Append(filters, r.ret)))

\* ScalableBloomFilter.fromfile: [err, why, ret, pos]
SBFFromFile(st) ==
    Let(IF st.nfilters > 0
        THEN ReadFilters(st.body, 1, st.sizes, 1, <<>>)
        ELSE [err |-> "", why |-> "", filters |-> <<>>, pos |-> 1],
        LAMBDA r :
           [err |-> r.err, why |-> r.why, pos |-> r.pos,
            ret |-> IF r.err # "" THEN None
                    ELSE [scale |-> st.hdr[1],
                          ratio |-> st.hdr[2],
                          initial_capacity |-> st.hdr[3],
                          error_rate |-> st.hdr[4],
                          filters |-> r.filters]])

(***************************************************************************)
(* The ScalableBloomFilter file specification: sbf is added to, written    *)
(* to a file, and R is read back from the file.                            *)
(***************************************************************************)
\* sbf.add(key) before the file is written
SBFAddFirst ==
    /\ file = None /\ R = None
    /\ SBFAddCall

\* sbf.tofile(f)
SBFToFileCall ==
    /\ sbf # None
    /\ file = None /\ R = None
    /\ file' = SBFToFile(sbf)
    /\ last' = [op |-> "sbf.tofile"]
    /\ UNCHANGED <<digest, A, B, R, sbf, ghost>>

\* R = ScalableBloomFilter.fromfile(f)
SBFFromFileCall ==
    /\ file # None
    /\ LET r == SBFFromFile(file)
       IN /\ R' = r.ret
          /\ last' = [op |-> "sbf.fromfile", err |-> r.err, why |-> r.why,
                      stream |-> file, pos |-> r.pos]
    /\ file' = None
    /\ UNCHANGED <<digest, A, B, sbf, ghost>>

NextSBFFile == SBFAddFirst \/ SBFToFileCall \/ SBFFromFileCall

SpecSBFFile == InitSBF /\ [][NextSBFFile]_vars

(***************************************************************************)
(* Claims checked under Spec (one BloomFilter, A).                         *)
(***************************************************************************)
Fresh(f) == f.count = 0 /\ f.bitarray = Zeros(f.num_bits)

\* C1: no false negatives: every key passed to an add of A that completed
\* without error is contained in A, in every later state.
C1_NoFalseNegatives ==
    A # None => \A key \in ghost.added["A"] : Contains(A, key)

\* two keys were added, one of them before the last add, with and without
\* skip_check along the way
C1_Witness ==
    /\ A # None
    /\ ghost.added["A"] = Keys
    /\ ghost.skipped["A"]
    /\ last.op = "add" /\ last.err = "" /\ ~last.skip_check
    /\ last.pre.count > 0

\* C3: add(key) with skip_check = false on a filter that is not saturated
\* returns true iff contains(key) held before the call; then count and the
\* bits are unchanged; when it returns false count grows by exactly 1.  On
\* a fresh filter the first add returns false and count becomes 1.
C3_AddReturn ==
    (last.op = "add" /\ ~last.skip_check /\ last.pre.count <= last.pre.capacity)
    => /\ last.err = ""
       /\ last.ret = Contains(last.pre, last.key)
       /\ last.ret => (A.count = last.pre.count /\ A.bitarray = last.pre.bitarray)
       /\ ~last.ret => A.count = last.pre.count + 1
       /\ Fresh(last.pre) => (~last.ret /\ A.count = 1)

\* add(x) again after add(x): it returns true and count stays 1
C3_Witness ==
    /\ last.op = "add" /\ ~last.skip_check /\ last.err = ""
    /\ last.ret
    /\ ghost.added["A"] = {last.key}
    /\ A.count = 1

\* C4: count never exceeds capacity.
C4_CountWithinCapacity ==
    A # None => A.count <= A.capacity

\* C5: add raises IndexError exactly when count > capacity at the call,
\* whatever the key and skip_check; a failed add changes neither the bits
\* nor count.
C5_Saturated ==
    last.op = "add"
    => /\ (last.err = "IndexError") = (last.pre.count > last.pre.capacity)
       /\ last.err \in {"", "IndexError"}
       /\ last.err # "" => A = last.pre

\* a failed add of a key the filter already contains
C5_Witness ==
    /\ last.op = "add" /\ last.err = "IndexError"
    /\ Contains(last.pre, last.key)
    /\ ~last.skip_check
    /\ A.count = A.capacity + 1

\* C6 as stated: with every add checked, count is the number of distinct
\* keys added, while count stays within capacity.
C6_CountIsDistinct ==
    (A # None /\ ~ghost.skipped["A"] /\ A.count <= A.capacity)
    => A.count = Cardinality(ghost.added["A"])

\* C6 amended: with every add checked, count is the number of distinct keys
\* whose add returned false; a key whose bits were all set already by other
\* keys is not counted, so count is at most the number of distinct keys.
C6_CountIsCounted ==
    (A # None /\ ~ghost.skipped["A"])
    => /\ A.count = Cardinality(ghost.counted["A"])
       /\ ghost.counted["A"] \subseteq ghost.added["A"]
       /\ A.count <= Cardinality(ghost.added["A"])

\* two distinct keys added, both counted, then one of them added again
C6_Witness ==
    /\ A # None /\ ~ghost.skipped["A"]
    /\ ghost.counted["A"] = Keys
    /\ A.count = NumKeys
    /\ last.op = "add" /\ last.ret

(***************************************************************************)
(* Claims checked under SpecSet (A and B constructed and filled).          *)
(***************************************************************************)
Geometry(f) ==
    <<f.capacity, f.error_rate, f.num_slices, f.bits_per_slice, f.num_bits>>

\* C7: for A and B of equal capacity and error_rate, union(A, B) contains
\* every key added to A or to B and intersection(A, B) every key added to
\* both; the result's bits are the OR (the AND) of the operands' bits and
\* its geometry is theirs.
C7_SetLaws ==
    (last.op \in {"union", "intersection"}
        /\ A.capacity = B.capacity /\ A.error_rate = B.error_rate)
    => /\ last.err = ""
       /\ Geometry(R) = Geometry(A)
       /\ Geometry(R) = Geometry(B)
       /\ Len(R.bitarray) = R.num_bits
       /\ Len(R.bitarray) = Len(A.bitarray)
       /\ last.op = "union" =>
            /\ \A i \in 1..Len(R.bitarray) :
                  (R.bitarray[i] = 1) = (A.bitarray[i] = 1 \/ B.bitarray[i] = 1)
            /\ \A key \in ghost.added["A"] \cup ghost.added["B"] : Contains(R, key)
       /\ last.op = "intersection" =>
            /\ \A i \in 1..Len(R.bitarray) :
                  (R.bitarray[i] = 1) = (A.bitarray[i] = 1 /\ B.bitarray[i] = 1)
            /\ \A key \in ghost.added["A"] \cap ghost.added["B"] : Contains(R, key)

\* a union of two filters holding different keys, with bits neither has alone
C7_Witness ==
    /\ last.op = "union" /\ last.err = ""
    /\ ghost.added["A"] # {} /\ ghost.added["B"] # {}
    /\ ghost.added["A"] \cap ghost.added["B"] = {}
    /\ R.bitarray # A.bitarray /\ R.bitarray # B.bitarray

\* C9: the count of union(A, B) lies within N * (1 - p) and N * (1 + p),
\* N the number of distinct keys added to A or to B, p the error rate.
C9_UnionCount ==
    (last.op = "union" /\ last.err = "")
    => LET N == Cardinality(ghost.added["A"] \cup ghost.added["B"])
           p == A.error_rate
       IN /\ N * (p.d - p.n) <= R.count * p.d
          /\ R.count * p.d <= N * (p.d + p.n)

(***************************************************************************)
(* Claims checked under SpecLoad (A and B read from streams).              *)
(***************************************************************************)
\* C8: union and intersection raise ValueError whenever the operands differ
\* in capacity, error_rate, num_slices or bits_per_slice; then no filter is
\* returned and the operands are as they were.
C8_Incompatible ==
    (last.op \in {"union", "intersection"}
        /\ \/ A.capacity # B.capacity
           \/ A.error_rate # B.error_rate
           \/ A.num_slices # B.num_slices
           \/ A.bits_per_slice # B.bits_per_slice)
    => /\ last.err = "ValueError"
       /\ R = None
       /\ A = last.self /\ B = last.other

(***************************************************************************)
(* Claims checked under SpecFile (A written, B read back).                 *)
(***************************************************************************)
\* C10: G = fromfile(tofile(F)) has F's error_rate, num_slices,
\* bits_per_slice, capacity and count and a bit vector identical to F's
\* (same length, same bits); contains agrees on every key, and G can stand
\* for F in union and intersection.
C10_RoundTrip ==
    (last.op = "fromfile" /\ last.stream = ToFile(A) /\ last.n <= 0)
    => /\ last.err = ""
       /\ B.error_rate = A.error_rate
       /\ B.num_slices = A.num_slices
       /\ B.bits_per_slice = A.bits_per_slice
       /\ B.capacity = A.capacity
       /\ B.count = A.count
       /\ Len(B.bitarray) = Len(A.bitarray)
       /\ B.bitarray = A.bitarray
       /\ \A key \in Keys : Contains(B, key) = Contains(A, key)
       /\ Union(A, B).err = Union(A, A).err
       /\ Intersection(B, A).err = Intersection(A, A).err

(***************************************************************************)
(* Claims checked under SpecSBF.                                           *)
(***************************************************************************)
\* C2: after any sequence of adds, every key ever passed to add is
\* contained in the ScalableBloomFilter, whichever filter holds it.
C2_NoFalseNegatives ==
    \A key \in ghost.sbfPassed : SBFContains(sbf, key)

(***************************************************************************)
(* Claims checked under SpecSBFFile.                                       *)
(***************************************************************************)
\* the byte of the file where filter i starts, counted from 1
RECURSIVE StartOf(_, _)
StartOf(sizes, i) == IF i = 1 THEN 1 ELSE StartOf(sizes, i - 1) + sizes[i - 1]

\* C11: R = fromfile(tofile(sbf)) has sbf's scale, ratio, initial_capacity
\* and error_rate and as many filters in the same order, each with the same
\* capacity and count; each recorded length is 40 + ceil(num_bits / 8), so
\* each filter is read from its own bytes (it starts on its header and the
\* last one ends the file); every key sbf contains, R contains.
C11_SBFRoundTrip ==
    last.op = "sbf.fromfile"
    => /\ last.err = ""
       /\ R.scale = sbf.scale
       /\ R.ratio = sbf.ratio
       /\ R.initial_capacity = sbf.initial_capacity
       /\ R.error_rate = sbf.error_rate
       /\ Len(R.filters) = Len(sbf.filters)
       /\ Len(last.stream.sizes) = Len(sbf.filters)
       /\ \A i \in 1..Len(sbf.filters) :
             /\ R.filters[i].capacity = sbf.filters[i].capacity
             /\ R.filters[i].count = sbf.filters[i].count
             /\ last.stream.sizes[i] = 40 + CeilDiv(sbf.filters[i].num_bits, 8)
             /\ last.stream.body[StartOf(last.stream.sizes, i)].kind = "hdr"
             /\ last.stream.body[StartOf(last.stream.sizes, i)].v
                   = ToFile(sbf.filters[i]).hdr
       /\ last.pos = Len(last.stream.body) + 1
       /\ \A key \in Keys : SBFContains(sbf, key) => SBFContains(R, key)

\* an SBF of two filters, the sealed one and the active one both holding a
\* key, is read back
C11_Witness ==
    /\ last.op = "sbf.fromfile" /\ last.err = ""
    /\ Len(R.filters) = 2
    /\ R.filters[1].count > 0 /\ R.filters[2].count > 0
    /\ R.filters[1].num_bits % 8 # 0

\* an SBF without filters is read back
C11_WitnessEmpty ==
    /\ last.op = "sbf.fromfile" /\ last.err = ""
    /\ R.filters = <<>>

(***************************************************************************)
(* Claims checked under SpecSBF (continued).                               *)
(***************************************************************************)
\* the parameters the constructor is meant to take
ValidArgs(initial_capacity, error_rate, mode) ==
    /\ initial_capacity > 0
    /\ RatLess(Zero, error_rate) /\ RatLess(error_rate, One)
    /\ mode \in {2, 4}

ValidParams(s) == ValidArgs(s.initial_capacity, s.error_rate, s.scale)

\* C13: add(key) returns true iff the SBF contained key before the call,
\* and then the SBF is unchanged; otherwise it returns false and len grows
\* by exactly 1; so len is the number of adds that returned false.
C13_SBFAddReturn ==
    /\ last.op = "sbf.add"
       => /\ last.err = ""
          /\ last.ret = SBFContains(last.pre, last.key)
          /\ last.ret => sbf = last.pre
          /\ ~last.ret => SBFLen(sbf) = SBFLen(last.pre) + 1
    /\ sbf # None => SBFLen(sbf) = ghost.sbfFalse

\* the count of the active filter when add calls active.add: 0 for a filter
\* the call has just appended
ActiveCountBefore ==
    IF Len(sbf.filters) > Len(last.pre.filters) THEN 0
    ELSE last.pre.filters[Len(last.pre.filters)].count

\* C14: for an SBF built with valid parameters add never fails; every
\* filter has count <= capacity, every filter but the last is full, and
\* the active filter is below capacity when add writes to it.
C14_NeverSaturated ==
    (sbf # None /\ ValidParams(sbf))
    => /\ last.op = "sbf.add" => last.err = ""
       /\ \A i \in 1..Len(sbf.filters) :
             /\ sbf.filters[i].count <= sbf.filters[i].capacity
             /\ i < Len(sbf.filters)
                   => sbf.filters[i].count = sbf.filters[i].capacity
       /\ (last.op = "sbf.add" /\ ~last.ret)
             => ActiveCountBefore < sbf.filters[Len(sbf.filters)].capacity

\* an add that found the only filter full and appended a second
C14_Witness ==
    /\ sbf # None /\ ValidParams(sbf)
    /\ last.op = "sbf.add" /\ ~last.ret /\ last.err = ""
    /\ Len(last.pre.filters) = 1 /\ Len(sbf.filters) = 2
    /\ sbf.filters[1].count = sbf.filters[1].capacity

\* C15: a constructor call with invalid parameters fails, no SBF with such
\* parameters exists, and no add fails.
C15_InvalidRejected ==
    /\ (last.op = "sbf.new"
          /\ ~ValidArgs(last.initial_capacity, last.error_rate, last.mode))
       => (last.err = "ValueError" /\ sbf = None)
    /\ sbf # None => ValidParams(sbf)
    /\ last.op = "sbf.add" => last.err = ""

RECURSIVE Power(_, _)
Power(b, e) == IF e = 0 THEN 1 ELSE b * Power(b, e - 1)

\* C17: filter i (from 0) has capacity initial_capacity * scale^i and the
\* error rate error_rate * (1 - ratio) for i = 0, ratio times that of
\* filter i - 1 otherwise; a filter is appended only by an add of a key
\* that was not contained, to no filters or to a full last filter.
C17_Generations ==
    sbf # None
    => /\ \A i \in 1..Len(sbf.filters) :
             /\ sbf.filters[i].capacity
                   = sbf.initial_capacity * Power(sbf.scale, i - 1)
             /\ sbf.filters[i].error_rate
                   = IF i = 1
                     THEN Rat(sbf.error_rate.n * (sbf.ratio.d - sbf.ratio.n),
                              sbf.error_rate.d * sbf.ratio.d)
                     ELSE Rat(sbf.filters[i - 1].error_rate.n * sbf.ratio.n,
                              sbf.filters[i - 1].error_rate.d * sbf.ratio.d)
       /\ (last.op = "sbf.add" /\ Len(sbf.filters) # Len(last.pre.filters))
             => /\ Len(sbf.filters) = Len(last.pre.filters) + 1
                /\ ~SBFContains(last.pre, last.key)
                /\ \/ last.pre.filters = <<>>
                   \/ last.pre.filters[Len(last.pre.filters)].count
                         >= last.pre.filters[Len(last.pre.filters)].capacity

\* a second generation: scale times the capacity, ratio times the rate
C17_Witness ==
    /\ sbf # None
    /\ Len(sbf.filters) = 2
    /\ sbf.filters[2].capacity = sbf.initial_capacity * sbf.scale
    /\ sbf.filters[2].error_rate # sbf.filters[1].error_rate
    /\ last.op = "sbf.add" /\ Len(last.pre.filters) = 1

\* what a filter is made with
Shape(f) ==
    <<f.capacity, f.error_rate, f.num_slices, f.bits_per_slice, f.num_bits,
      Len(f.bitarray)>>

\* C18: an SBF starts with no filters; a step appends at most one filter
\* and removes, reorders and resizes none; it changes the bits and count of
\* the last filter at most, so a filter that is not last stays as it is.
C18_AppendOnly ==
    /\ [](last.op = "sbf.new" /\ sbf # None => sbf.filters = <<>>)
    /\ [][sbf # None
          => /\ Len(sbf'.filters) \in {Len(sbf.filters), Len(sbf.filters) + 1}
             /\ \A i \in 1..Len(sbf.filters) :
                   /\ Shape(sbf'.filters[i]) = Shape(sbf.filters[i])
                   /\ i < Len(sbf'.filters) => sbf'.filters[i] = sbf.filters[i]
             /\ (sbf.filters = <<>> /\ last'.op = "sbf.add" /\ last'.err = "")
                   => (Len(sbf'.filters) = 1 /\ sbf'.filters[1].count = 1)]_vars

\* a filter sealed by growth while the active one took a key
C18_Witness ==
    /\ sbf # None
    /\ last.op = "sbf.add" /\ ~last.ret /\ last.err = ""
    /\ Len(sbf.filters) = 2
    /\ sbf.filters[1] = last.pre.filters[1]
    /\ sbf.filters[2].count > 0

(***************************************************************************)
(* Claims checked under SpecPayload.                                       *)
(***************************************************************************)
\* the bytes fromfile(f, n) takes as the payload of the stream
PayloadRead(stream, n) ==
    IF n > 0 THEN Read(stream.data, n - 40) ELSE stream.data

\* C19: fromfile(f, n) with 0 < n < 40 fails before reading; otherwise it
\* succeeds exactly when the payload holds num_bits bits or num_bits
\* rounded up to whole bytes, num_bits = num_slices * bits_per_slice, and
\* fails with ValueError for every other payload length.
C19_PayloadLength ==
    last.op = "fromfile"
    => LET num_bits == last.stream.hdr[2] * last.stream.hdr[3]
           bits == 8 * Len(PayloadRead(last.stream, last.n))
       IN IF 0 < last.n /\ last.n < 40
          THEN last.err = "ValueError" /\ last.why = "n too small" /\ A = None
          ELSE /\ last.err \in {"", "ValueError"}
               /\ (last.err = "")
                     = (bits = num_bits \/ bits = 8 * CeilDiv(num_bits, 8))

(***************************************************************************)
(* Claims checked under SpecOps.                                           *)
(***************************************************************************)
\* the bits set in before are bits of after, and set
KeepsBits(before, after) ==
    \A i \in 1..Len(before.bitarray) :
       before.bitarray[i] = 1
       => (i <= Len(after.bitarray) /\ after.bitarray[i] = 1)

\* C16: a bit of a filter that is set stays set: no step (an add that
\* succeeds or fails, copy, union, intersection, tofile) clears a bit of A
\* or of B.
C16_Monotone ==
    [][KeepsBits(A, A') /\ KeepsBits(B, B')]_vars

\* A holds a key and a failed add, and an intersection with B has fewer
\* bits than A
C16_Witness ==
    /\ last.op = "intersection" /\ last.err = ""
    /\ A.count > A.capacity
    /\ \E i \in 1..Len(A.bitarray) : A.bitarray[i] = 1 /\ R.bitarray[i] = 0

====
